---- MODULE Spec2Model ----
(***************************************************************************)
(* Model of the incremental tail-and-broadcast engine of cc-log-viewer:    *)
(* WatchManager (src/lib.rs and its copy in src/main.rs), the tokio        *)
(* broadcast channel it publishes to, and handle_websocket.                *)
(*                                                                         *)
(* A file is a sequence of bytes.  One byte in BodyBytes stands for the    *)
(* member list of a JSON object (for instance "uuid":"entry-7"), so that   *)
(* <<LBRACE, b, RBRACE>> is a well-formed object line whose uuid is b.     *)
(***************************************************************************)
EXTENDS Integers, Sequences, FiniteSets, TLC

\* ------------------------------------------------------------------ bounds
\* number of writes the environment makes to the watched tree
MaxWrites == 2
\* number of lines written by one large write (more than the batch limit)
BurstLines == 11
\* slots of the broadcast ring; the program asks for 1000 (WatchManager::new),
\* the model takes a short ring so that lagging is reachable
ChannelCapacity == 2
\* frames other than close that a viewer sends on one connection
MaxFrames == 1
\* session files a project directory holds at most
MaxSessions == 2

\* ---------------------------------------------------------------- constants
NL == 10
CR == 13
SP == 32
LBRACE == 123
RBRACE == 125
XBYTE == 120
\* stands for a member that no field of LogEntry is named after
EXTRA == 121
max_entries_per_event == 10

FirstBody == 48
BodyBytes == FirstBody .. (XBYTE - 1)
IsBody(b) == b \in BodyBytes

\* ------------------------------------------------------------------- paths
\* a path below the watched root: the directory holding the parent, the
\* parent directory's name, the file stem and the extension
PA == [dir |-> <<"r">>, parent |-> <<"p">>, stem |-> <<"s">>, ext |-> "jsonl"]
PB == [dir |-> <<"r">>, parent |-> <<"q">>, stem |-> <<"s">>, ext |-> "jsonl"]
PT == [dir |-> <<"r">>, parent |-> <<"p">>, stem |-> <<"s">>, ext |-> "txt"]
Paths == {PA, PB, PT}
LogPaths == {p \in Paths : p.ext = "jsonl"}
\* a log file one level further down, which the recursive watch reports too
PD == [dir |-> <<"r", "x">>, parent |-> <<"p">>, stem |-> <<"s">>, ext |-> "jsonl"]
WatchedPaths == Paths \cup {PD}

\* format!("{}:{}", project_name, session_id)
SessionKey(path) == path.parent \o <<":">> \o path.stem

\* Option<T>
Some(v) == <<v>>
None == <<>>

Receivers == {"c1", "c2", "t1", "t2"}
Conns == {"c1", "c2"}
Direct == Receivers \ Conns
\* invocations of the watcher's callback
Invocations == {"i1", "i2"}

VARIABLES
    files,            \* path -> content bytes
    fstat,            \* path -> "absent" | "file" | "noread"
    active_sessions,  \* DashMap<String, SessionState>
    sent,             \* every WatchEvent the channel accepted, in order
    watch_rx,         \* live broadcast receivers: id -> index of next event
    pending,          \* files changed since the watcher last reported them
    writes,           \* writes made so far
    nextBody,         \* next unused body byte
    inflight,         \* callback invocation -> what it looked up, while it runs
    projects_dir_exists, \* whether the watched root directory exists
    watch_manager,    \* "none" | "running" | "failed" | "exited"
    len_at_start,     \* path -> length of the file when the manager was built
    since,            \* receiver -> length of sent when it was registered
    missed,           \* receiver -> events it was told it lagged past
    delivered,        \* receiver -> the events recv() returned to it
    handler,          \* connection -> state of handle_websocket
    recv_task,        \* connection -> state of the inbound task
    send_task,        \* connection -> state of the outbound task
    transport,        \* connection -> "open", or how the transport ended
    frames,           \* connection -> frames read by the inbound task
    forwarded,        \* connection -> the events sent on its transport
    tui,              \* the fields of TuiApp
    disk              \* project directory name -> its session files, if it exists

startVars == <<projects_dir_exists, watch_manager, len_at_start>>
tuiVars == <<tui, disk>>
tailVars == <<files, fstat, active_sessions, sent, pending, writes, nextBody, inflight,
              startVars, tuiVars>>
subVars == <<since, missed, delivered>>
connVars == <<handler, recv_task, send_task, transport, frames, forwarded>>

\* ---------------------------------------------------------- line predicates
IsSpace(b) == b \in {SP, CR}

RECURSIVE TrimStart(_)
TrimStart(s) == IF s # <<>> /\ IsSpace(Head(s)) THEN TrimStart(Tail(s)) ELSE s

RECURSIVE TrimEnd(_)
TrimEnd(s) ==
    IF s # <<>> /\ IsSpace(s[Len(s)]) THEN TrimEnd(SubSeq(s, 1, Len(s) - 1)) ELSE s

\* str::trim
Trim(s) == TrimEnd(TrimStart(s))

\* line_content.trim().starts_with('{') && line_content.trim().ends_with('}')
LooksLikeJson(line) ==
    LET t == Trim(line)
    IN  t # <<>> /\ t[1] = LBRACE /\ t[Len(t)] = RBRACE

NoSpace(s) == SelectSeq(s, LAMBDA b : ~IsSpace(b))

\* the parser takes whatever stands between the braces
ParseOk_Lenient(line) == TRUE

\* serde_json::from_str::<LogEntry>: the text is one JSON object, white space
\* allowed around every token; every field of LogEntry is optional, and a
\* member that is not a field of LogEntry is accepted
ParseOk(line) ==
    LET t == NoSpace(line)
    IN  \/ t = <<LBRACE, RBRACE>>
        \/ Len(t) = 3 /\ t[1] = LBRACE /\ (IsBody(t[2]) \/ t[2] = EXTRA) /\ t[3] = RBRACE
        \/ Len(t) = 4 /\ t[1] = LBRACE /\ IsBody(t[2]) /\ t[3] = EXTRA /\ t[4] = RBRACE

\* the LogEntry the derive builds: the fields it names, None when missing;
\* a member it does not name is read and left out
ParseLogEntry(line) ==
    LET t == NoSpace(line)
    IN  [uuid |-> IF Len(t) >= 3 /\ IsBody(t[2]) THEN Some(t[2]) ELSE None]

\* ------------------------------------------------------- Incremental Reader
RECURSIVE FindLineEnd(_, _)
FindLineEnd(content_bytes, line_end) ==
    IF line_end < Len(content_bytes) /\ content_bytes[line_end + 1] # NL
    THEN FindLineEnd(content_bytes, line_end + 1)
    ELSE line_end

\* a line that starts exactly at the tracked offset is passed over
PastStart_Strict(line_byte_start, from_position) == line_byte_start > from_position

\* every line is processed, wherever it starts
PastStart_Always(line_byte_start, from_position) == TRUE

\* "Process line if it's past our starting position"
PastStart(line_byte_start, from_position) == line_byte_start >= from_position

RECURSIVE ScanLines(_, _, _, _)
ScanLines(content_bytes, from_position, line_start, entries_with_positions) ==
    IF ~(line_start < Len(content_bytes))
    THEN entries_with_positions
    ELSE LET line_end == FindLineEnd(content_bytes, line_start)
             line_byte_start == line_start
             line_byte_end ==
                 IF line_end < Len(content_bytes) THEN line_end + 1 ELSE line_end
             line_content == SubSeq(content_bytes, line_start + 1, line_end)
             pushed ==
                 IF /\ PastStart(line_byte_start, from_position)
                    /\ LooksLikeJson(line_content)
                    /\ ParseOk(line_content)
                 THEN Append(entries_with_positions,
                             <<ParseLogEntry(line_content), line_byte_end>>)
                 ELSE entries_with_positions
         IN  IF line_end < Len(content_bytes)
             THEN ScanLines(content_bytes, from_position, line_end + 1, pushed)
             ELSE pushed

\* a reader for which no read fails
read_new_entries_Blind(path, from_position) ==
    ScanLines(files[path], from_position, 0, <<>>)

\* WatchManager::read_new_entries of src/lib.rs; a file that cannot be read
\* yields Ok(Vec::new())
read_new_entries(path, from_position) ==
    IF fstat[path] # "file"
    THEN <<>>
    ELSE ScanLines(files[path], from_position, 0, <<>>)

\* --------------------------------------------------------------- dispatcher
\* an event labelled with the directory above the session's own
WatchEvent_Grandparent(path, entry) ==
    [event_type |-> "log_entry",
     project    |-> <<path.dir[Len(path.dir)]>>,
     session    |-> Some(path.stem),
     entry      |-> Some(entry)]

\* WatchEvent { event_type, project, session, entry } as the dispatcher builds it
WatchEvent(path, entry) ==
    [event_type |-> "log_entry",
     project    |-> path.parent,
     session    |-> Some(path.stem),
     entry      |-> Some(entry)]

MapInsert(map, key, value) ==
    [k \in DOMAIN map \cup {key} |-> IF k = key THEN value ELSE map[k]]

Min(a, b) == IF a < b THEN a ELSE b

\* a bounded queue per receiver: the send is refused while a receiver is full
SendOk_Backpressure ==
    /\ DOMAIN watch_rx # {}
    /\ \A r \in DOMAIN watch_rx : Len(sent) - watch_rx[r] < ChannelCapacity

\* broadcast::Sender::send fails exactly when no receiver is alive
SendOk == DOMAIN watch_rx # {}

\* the tracked offset is forgotten: every dispatch reads from the start
current_pos_Forgotten(sessions, key) == 0

\* an unseen stream starts past the first byte of its file
current_pos_Skip(sessions, key) ==
    IF key \in DOMAIN sessions THEN sessions[key].last_position ELSE 1

\* active_sessions.get(&key): the stream's tracked offset, 0 when unseen
current_pos(sessions, key) ==
    IF key \in DOMAIN sessions THEN sessions[key].last_position ELSE 0

\* a loop that does not look at the result of the send
Emitted_Blind(entries_with_positions) ==
    Min(Len(entries_with_positions), max_entries_per_event)

\* the number of turns of the for loop that reach the end of its body:
\* .take(max_entries_per_event), left at the first failed send
Emitted(entries_with_positions) ==
    IF SendOk THEN Min(Len(entries_with_positions), max_entries_per_event) ELSE 0

\* the offset moves to the last entry read, emitted or not
last_processed_position_Read(entries_with_positions, emitted, start_pos) ==
    IF entries_with_positions = <<>> THEN start_pos
    ELSE entries_with_positions[Len(entries_with_positions)][2]

\* the offset falls back to the start of the file when nothing was emitted
last_processed_position_Restart(entries_with_positions, emitted, start_pos) ==
    IF emitted = 0 THEN 0 ELSE entries_with_positions[emitted][2]

\* the offset stops one entry short of the last one emitted
last_processed_position_Behind(entries_with_positions, emitted, start_pos) ==
    IF emitted <= 1 THEN start_pos ELSE entries_with_positions[emitted - 1][2]

\* last_processed_position after the loop
last_processed_position(entries_with_positions, emitted, start_pos) ==
    IF emitted = 0 THEN start_pos ELSE entries_with_positions[emitted][2]

\* the loop over a path's entries run from the last entry to the first
ProcessPath_Reversed(path, st) ==
    IF path.ext # "jsonl" \/ fstat[path] = "absent"
    THEN st
    ELSE LET key == SessionKey(path)
             start_pos == current_pos(st.sessions, key)
             entries_with_positions == read_new_entries(path, start_pos)
             emitted == Emitted(entries_with_positions)
             events ==
                 [i \in 1 .. emitted |->
                     WatchEvent(path, entries_with_positions[emitted + 1 - i][1])]
         IN  [sessions |->
                 MapInsert(st.sessions, key,
                     [project_name  |-> path.parent,
                      session_file  |-> path,
                      last_position |->
                          last_processed_position(entries_with_positions,
                                                  emitted, start_pos)]),
              sent |-> st.sent \o events]

\* a loop body that takes every file for a log file
ProcessPath_AnyExtension(path, st) ==
    IF fstat[path] = "absent"
    THEN st
    ELSE LET key == SessionKey(path)
             start_pos == current_pos(st.sessions, key)
             entries_with_positions == read_new_entries(path, start_pos)
             emitted == Emitted(entries_with_positions)
             events ==
                 [i \in 1 .. emitted |->
                     WatchEvent(path, entries_with_positions[i][1])]
         IN  [sessions |->
                 MapInsert(st.sessions, key,
                     [project_name  |-> path.parent,
                      session_file  |-> path,
                      last_position |->
                          last_processed_position(entries_with_positions,
                                                  emitted, start_pos)]),
              sent |-> st.sent \o events]

\* the body of the loop over event.paths for one path; st is the dispatcher's
\* view [sessions, sent] so far
ProcessPath(path, st) ==
    IF path.ext # "jsonl" \/ fstat[path] = "absent"
    THEN st
    ELSE LET key == SessionKey(path)
             start_pos == current_pos(st.sessions, key)
             entries_with_positions == read_new_entries(path, start_pos)
             emitted == Emitted(entries_with_positions)
             events ==
                 [i \in 1 .. emitted |->
                     WatchEvent(path, entries_with_positions[i][1])]
         IN  [sessions |->
                 MapInsert(st.sessions, key,
                     [project_name  |-> path.parent,
                      session_file  |-> path,
                      last_position |->
                          last_processed_position(entries_with_positions,
                                                  emitted, start_pos)]),
              sent |-> st.sent \o events]

\* a batch that is given up at the first path that cannot be read
RECURSIVE ProcessPaths_Abort(_, _)
ProcessPaths_Abort(paths, st) ==
    IF paths = <<>> \/ fstat[Head(paths)] # "file" THEN st
    ELSE ProcessPaths_Abort(Tail(paths), ProcessPath(Head(paths), st))

RECURSIVE ProcessPaths(_, _)
ProcessPaths(paths, st) ==
    IF paths = <<>> THEN st
    ELSE ProcessPaths(Tail(paths), ProcessPath(Head(paths), st))

EventKinds == {"create", "modify", "remove"}

SeqRange(s) == {s[i] : i \in DOMAIN s}

\* the batches the watcher reports: one path, or two paths
Batches == {<<p>> : p \in Paths} \cup {<<PA, PB>>, <<PB, PA>>, <<PT, PA>>}

\* the kinds of notify::EventKind that are neither Create nor Modify
OtherKinds == {"remove", "access", "any", "other"}

\* a dispatcher that processes the paths of every notification
match_event_kind_Every(kind, paths) ==
    ProcessPaths(paths, [sessions |-> active_sessions, sent |-> sent])

\* match event.kind: the map and the channel as the notification leaves them
match_event_kind(kind, paths) ==
    IF kind \in {"create", "modify"}
    THEN ProcessPaths(paths, [sessions |-> active_sessions, sent |-> sent])
    ELSE [sessions |-> active_sessions, sent |-> sent]

\* WatchManager::handle_fs_event of src/lib.rs, run by the watcher's callback
handle_fs_event(kind, paths) ==
    /\ LET st == match_event_kind(kind, paths)
       IN  /\ active_sessions' = st.sessions
           /\ sent' = st.sent
    /\ pending' = IF kind \in {"create", "modify"}
                  THEN pending \ SeqRange(paths) ELSE pending
    /\ UNCHANGED <<files, fstat, watch_rx, writes, nextBody, inflight, subVars, connVars, startVars, tuiVars>>

\* ---- one invocation of the callback for one path, in its two halves
\* a callback that may be entered while another invocation is running
fs_lookup_Concurrent(i, kind, path) ==
    /\ inflight[i] = None
    /\ pending' = IF kind \in {"create", "modify"} THEN pending \ {path} ELSE pending
    /\ inflight' =
          IF kind \in {"create", "modify"} /\ path.ext = "jsonl" /\ fstat[path] # "absent"
          THEN [inflight EXCEPT ![i] =
                   Some([path |-> path,
                         current_pos |-> current_pos(active_sessions, SessionKey(path))])]
          ELSE inflight
    /\ UNCHANGED <<files, fstat, active_sessions, sent, watch_rx, writes, nextBody,
                   subVars, connVars, startVars, tuiVars>>

\* the callback is entered, on the watcher's thread, only when no invocation
\* is running; it filters the path and looks up the stream's tracked offset
fs_lookup(i, kind, path) ==
    /\ \A j \in Invocations : inflight[j] = None
    /\ pending' = IF kind \in {"create", "modify"} THEN pending \ {path} ELSE pending
    /\ inflight' =
          IF kind \in {"create", "modify"} /\ path.ext = "jsonl" /\ fstat[path] # "absent"
          THEN [inflight EXCEPT ![i] =
                   Some([path |-> path,
                         current_pos |-> current_pos(active_sessions, SessionKey(path))])]
          ELSE inflight
    /\ UNCHANGED <<files, fstat, active_sessions, sent, watch_rx, writes, nextBody,
                   subVars, connVars, startVars, tuiVars>>

\* the rest of the invocation: read from the offset looked up, send, insert
fs_complete(i) ==
    /\ inflight[i] # None
    /\ LET path == inflight[i][1].path
           start_pos == inflight[i][1].current_pos
           entries_with_positions == read_new_entries(path, start_pos)
           emitted == Emitted(entries_with_positions)
       IN  /\ sent' = sent \o [k \in 1 .. emitted |->
                                  WatchEvent(path, entries_with_positions[k][1])]
           /\ active_sessions' =
                 MapInsert(active_sessions, SessionKey(path),
                     [project_name  |-> path.parent,
                      session_file  |-> path,
                      last_position |->
                          last_processed_position(entries_with_positions,
                                                  emitted, start_pos)])
    /\ inflight' = [inflight EXCEPT ![i] = None]
    /\ UNCHANGED <<files, fstat, watch_rx, pending, writes, nextBody, subVars, connVars, startVars, tuiVars>>

\* ------------------------------------------- the copy in src/main.rs
\* str::lines: the text up to the next "\n", without a trailing "\r"
StripCR(line) ==
    IF line # <<>> /\ line[Len(line)] = CR THEN SubSeq(line, 1, Len(line) - 1) ELSE line

RECURSIVE MainScan(_, _, _, _, _)
\* index is where the next line starts in the content, main_pos the offset the
\* loop computes for it (current_pos in the source)
MainScan(content, from_position, index, main_pos, entries) ==
    IF ~(index < Len(content))
    THEN entries
    ELSE LET stop == FindLineEnd(content, index)
             line == StripCR(SubSeq(content, index + 1, stop))
             line_end == main_pos + Len(line) + 1
             pushed ==
                 IF /\ main_pos >= from_position
                    /\ LooksLikeJson(line)
                    /\ ParseOk(line)
                 THEN Append(entries, ParseLogEntry(line))
                 ELSE entries
         IN  MainScan(content, from_position, stop + 1, line_end, pushed)

\* WatchManager::read_new_entries of src/main.rs
main_read_new_entries(path, from_position) ==
    IF fstat[path] # "file"
    THEN <<>>
    ELSE MainScan(files[path], from_position, 0, 0, <<>>)

\* the body of the loop over event.paths in src/main.rs: the session state is
\* inserted with metadata.len() before anything is broadcast
MainProcessPath(path, st) ==
    IF path.ext # "jsonl" \/ fstat[path] = "absent"
    THEN st
    ELSE LET key == SessionKey(path)
             start_pos == current_pos(st.sessions, key)
             entries == main_read_new_entries(path, start_pos)
             emitted == Emitted(entries)
             events == [i \in 1 .. emitted |-> WatchEvent(path, entries[i])]
         IN  [sessions |->
                 MapInsert(st.sessions, key,
                     [project_name  |-> path.parent,
                      session_file  |-> path,
                      last_position |-> Len(files[path])]),
              sent |-> st.sent \o events]

RECURSIVE MainProcessPaths(_, _)
MainProcessPaths(paths, st) ==
    IF paths = <<>> THEN st
    ELSE MainProcessPaths(Tail(paths), MainProcessPath(Head(paths), st))

\* WatchManager::handle_fs_event of src/main.rs
main_handle_fs_event(kind, paths) ==
    /\ LET st == IF kind \in {"create", "modify"}
                 THEN MainProcessPaths(paths, [sessions |-> active_sessions, sent |-> sent])
                 ELSE [sessions |-> active_sessions, sent |-> sent]
       IN  /\ active_sessions' = st.sessions
           /\ sent' = st.sent
    /\ pending' = IF kind \in {"create", "modify"}
                  THEN pending \ SeqRange(paths) ELSE pending
    /\ UNCHANGED <<files, fstat, watch_rx, writes, nextBody, inflight, subVars, connVars, startVars, tuiVars>>

\* -------------------------------------------------------------- environment
RECURSIVE Lines(_, _)
\* n well-formed lines with bodies b, b+1, ...
Lines(b, n) == IF n = 0 THEN <<>> ELSE <<LBRACE, b, RBRACE, NL>> \o Lines(b + 1, n - 1)

WriteKinds == {"line", "burst", "open", "close", "text", "nl", "bare", "mixed"}

Chunk(kind, b) ==
    CASE kind = "line"  -> Lines(b, 1)
      [] kind = "burst" -> Lines(b, BurstLines)
      [] kind = "open"  -> <<LBRACE, b>>
      [] kind = "close" -> <<RBRACE, NL>>
      [] kind = "text"  -> <<XBYTE, NL>>
      [] kind = "nl"    -> <<NL>>
      [] kind = "bare"  -> <<LBRACE, b, RBRACE>>
      [] kind = "extra" -> <<LBRACE, EXTRA, RBRACE, NL>>
      [] kind = "crlf"  -> <<LBRACE, b, RBRACE, CR, NL>>
      [] kind = "both"  -> <<LBRACE, b, EXTRA, RBRACE, NL>>
      [] kind = "mixed" -> <<XBYTE, NL>> \o Lines(b, 1) \o <<LBRACE, b + 1, NL, NL>>
                           \o <<LBRACE, XBYTE, RBRACE, NL>> \o Lines(b + 2, 1)

Bodies(kind) ==
    CASE kind = "burst" -> BurstLines
      [] kind \in {"line", "open", "bare", "both", "crlf"} -> 1
      [] kind = "mixed" -> 3
      [] OTHER -> 0

\* the external tool appends to (or creates) a file below the watched root
WriteFile(path, kind) ==
    /\ writes < MaxWrites
    /\ nextBody + Bodies(kind) - 1 \in BodyBytes \cup {FirstBody - 1}
    /\ fstat[path] # "noread"
    /\ files' = [files EXCEPT ![path] = @ \o Chunk(kind, nextBody)]
    /\ fstat' = [fstat EXCEPT ![path] = "file"]
    /\ pending' = pending \cup {path}
    /\ writes' = writes + 1
    /\ nextBody' = nextBody + Bodies(kind)
    /\ UNCHANGED <<active_sessions, sent, watch_rx, inflight, subVars, connVars, startVars, tuiVars>>

\* the external tool empties a file and starts it again
TruncateFile(path) ==
    /\ fstat[path] = "file"
    /\ files[path] # <<>>
    /\ files' = [files EXCEPT ![path] = <<>>]
    /\ pending' = pending \cup {path}
    /\ UNCHANGED <<fstat, active_sessions, sent, watch_rx, writes, nextBody, inflight,
                   subVars, connVars, startVars, tuiVars>>

\* fs::read_to_string starts or stops failing for a file that exists
SetReadable(path, ok) ==
    /\ fstat[path] = (IF ok THEN "noread" ELSE "file")
    /\ fstat' = [fstat EXCEPT ![path] = IF ok THEN "file" ELSE "noread"]
    /\ pending' = pending \cup {path}
    /\ UNCHANGED <<files, active_sessions, sent, watch_rx, writes, nextBody, inflight,
                   subVars, connVars, startVars, tuiVars>>

\* the file goes away: fs::metadata fails for it from now on
RemoveFile(path) ==
    /\ fstat[path] # "absent"
    /\ fstat' = [fstat EXCEPT ![path] = "absent"]
    /\ files' = [files EXCEPT ![path] = <<>>]
    /\ pending' = pending \cup {path}
    /\ UNCHANGED <<active_sessions, sent, watch_rx, writes, nextBody, inflight,
                   subVars, connVars, startVars, tuiVars>>

MapRemove(map, key) == [k \in DOMAIN map \ {key} |-> map[k]]

\* a subscribe that hands out the channel's history
Registered_Replay(r) ==
    /\ watch_rx' = MapInsert(watch_rx, r, 0)
    /\ since' = [since EXCEPT ![r] = Len(sent)]
    /\ missed' = [missed EXCEPT ![r] = 0]
    /\ delivered' = [delivered EXCEPT ![r] = <<>>]

\* broadcast::Sender::subscribe: the new receiver starts at the channel's tail
Registered(r) ==
    /\ watch_rx' = MapInsert(watch_rx, r, Len(sent))
    /\ since' = [since EXCEPT ![r] = Len(sent)]
    /\ missed' = [missed EXCEPT ![r] = 0]
    /\ delivered' = [delivered EXCEPT ![r] = <<>>]

\* WatchManager::subscribe, called directly (as the tests do)
subscribe(r) ==
    /\ r \notin DOMAIN watch_rx
    /\ Registered(r)
    /\ UNCHANGED <<tailVars, connVars>>

\* the holder of a receiver drops it, and what it had received with it
DropReceiver(r) ==
    /\ r \in DOMAIN watch_rx
    /\ watch_rx' = MapRemove(watch_rx, r)
    /\ since' = [since EXCEPT ![r] = 0]
    /\ missed' = [missed EXCEPT ![r] = 0]
    /\ delivered' = [delivered EXCEPT ![r] = <<>>]
    /\ UNCHANGED <<tailVars, connVars>>

\* more events are pending for r than the ring retains
Lagging(r) == r \in DOMAIN watch_rx /\ Len(sent) - watch_rx[r] > ChannelCapacity

\* an event is pending for r and still retained
Ready(r) == r \in DOMAIN watch_rx /\ watch_rx[r] < Len(sent) /\ ~Lagging(r)

\* broadcast::Receiver::recv by a holder that goes on after RecvError::Lagged:
\* the receiver is moved to the oldest retained event
recv(r) ==
    /\ Lagging(r) \/ Ready(r)
    /\ IF Lagging(r)
       THEN /\ watch_rx' = [watch_rx EXCEPT ![r] = Len(sent) - ChannelCapacity]
            /\ missed' = [missed EXCEPT ![r] = @ + (Len(sent) - ChannelCapacity - watch_rx[r])]
            /\ UNCHANGED delivered
       ELSE /\ watch_rx' = [watch_rx EXCEPT ![r] = @ + 1]
            /\ delivered' = [delivered EXCEPT ![r] = Append(@, sent[watch_rx[r] + 1])]
            /\ UNCHANGED missed
    /\ UNCHANGED <<tailVars, since, connVars>>

\* ------------------------------------------------- Live Connection Handler
Frames == {"text", "binary", "ping", "pong"}
Endings == {"close", "error", "end"}

\* handle_websocket up to the select: subscribe and spawn the two tasks
ws_connect(c) ==
    /\ handler[c] = "none"
    /\ Registered(c)
    /\ handler' = [handler EXCEPT ![c] = "select"]
    /\ recv_task' = [recv_task EXCEPT ![c] = "running"]
    /\ send_task' = [send_task EXCEPT ![c] = "running"]
    /\ UNCHANGED <<tailVars, transport, frames, forwarded>>

\* one socket under every connection: its failure takes all of them down
transport_down_Shared(c, how) ==
    /\ handler[c] # "none"
    /\ transport[c] = "open"
    /\ transport' = [d \in Conns |-> how]
    /\ UNCHANGED <<tailVars, watch_rx, subVars, handler, recv_task, send_task, frames, forwarded>>

\* the viewer closes, or the transport fails or ends
transport_down(c, how) ==
    /\ handler[c] # "none"
    /\ transport[c] = "open"
    /\ transport' = [transport EXCEPT ![c] = how]
    /\ UNCHANGED <<tailVars, watch_rx, subVars, handler, recv_task, send_task, frames, forwarded>>

\* an inbound task that gives up at a frame that is not text
recv_frame_TextOnly(c, f) ==
    /\ recv_task[c] = "running"
    /\ transport[c] = "open"
    /\ frames[c] < MaxFrames
    /\ frames' = [frames EXCEPT ![c] = @ + 1]
    /\ recv_task' = [recv_task EXCEPT ![c] = IF f = "text" THEN @ ELSE "done"]
    /\ UNCHANGED <<tailVars, watch_rx, subVars, handler, send_task, transport, forwarded>>

\* recv_task reads a frame that is neither Close nor an error
recv_frame(c, f) ==
    /\ recv_task[c] = "running"
    /\ transport[c] = "open"
    /\ frames[c] < MaxFrames
    /\ frames' = [frames EXCEPT ![c] = @ + 1]
    /\ UNCHANGED <<tailVars, watch_rx, subVars, handler, recv_task, send_task, transport, forwarded>>

\* recv_task reads Close, an error, or the end of the stream
recv_end(c) ==
    /\ recv_task[c] = "running"
    /\ transport[c] \in Endings
    /\ recv_task' = [recv_task EXCEPT ![c] = "done"]
    /\ UNCHANGED <<tailVars, watch_rx, subVars, handler, send_task, transport, frames, forwarded>>

\* a forwarder that goes on after RecvError::Lagged
send_step_Resuming(c) ==
    /\ send_task[c] = "running"
    /\ Lagging(c) \/ Ready(c)
    /\ IF Lagging(c)
       THEN /\ watch_rx' = [watch_rx EXCEPT ![c] = Len(sent) - ChannelCapacity]
            /\ UNCHANGED <<send_task, delivered, forwarded>>
       ELSE /\ delivered' = [delivered EXCEPT ![c] = Append(@, sent[watch_rx[c] + 1])]
            /\ IF transport[c] = "open"
               THEN /\ watch_rx' = [watch_rx EXCEPT ![c] = @ + 1]
                    /\ forwarded' = [forwarded EXCEPT ![c] = Append(@, sent[watch_rx[c] + 1])]
                    /\ UNCHANGED send_task
               ELSE /\ send_task' = [send_task EXCEPT ![c] = "done"]
                    /\ watch_rx' = MapRemove(watch_rx, c)
                    /\ UNCHANGED forwarded
    /\ UNCHANGED <<tailVars, since, missed, handler, recv_task, transport, frames>>

\* a forwarder that gives up at the first event it cannot serialize
send_turn_Break(c, json_ok) ==
    /\ send_task[c] = "running"
    /\ Lagging(c) \/ Ready(c)
    /\ IF Lagging(c)
       THEN /\ send_task' = [send_task EXCEPT ![c] = "done"]
            /\ watch_rx' = MapRemove(watch_rx, c)
            /\ UNCHANGED <<delivered, forwarded>>
       ELSE /\ delivered' = [delivered EXCEPT ![c] = Append(@, sent[watch_rx[c] + 1])]
            /\ IF json_ok /\ transport[c] = "open"
               THEN /\ watch_rx' = [watch_rx EXCEPT ![c] = @ + 1]
                    /\ forwarded' = [forwarded EXCEPT ![c] = Append(@, sent[watch_rx[c] + 1])]
                    /\ UNCHANGED send_task
               ELSE /\ send_task' = [send_task EXCEPT ![c] = "done"]
                    /\ watch_rx' = MapRemove(watch_rx, c)
                    /\ UNCHANGED forwarded
    /\ UNCHANGED <<tailVars, since, missed, handler, recv_task, transport, frames>>

\* one turn of send_task's loop: watch_rx.recv(), serde_json::to_string, then
\* sender.send; json_ok is the outcome of the serialization
send_turn(c, json_ok) ==
    /\ send_task[c] = "running"
    /\ Lagging(c) \/ Ready(c)
    /\ IF Lagging(c)
       THEN \* recv() is Err(Lagged): the while-let loop ends
            /\ send_task' = [send_task EXCEPT ![c] = "done"]
            /\ watch_rx' = MapRemove(watch_rx, c)
            /\ UNCHANGED <<delivered, forwarded>>
       ELSE /\ delivered' = [delivered EXCEPT ![c] = Append(@, sent[watch_rx[c] + 1])]
            /\ IF ~json_ok
               THEN \* to_string is Err: continue with the next recv()
                    /\ watch_rx' = [watch_rx EXCEPT ![c] = @ + 1]
                    /\ UNCHANGED <<send_task, forwarded>>
               ELSE IF transport[c] = "open"
               THEN /\ watch_rx' = [watch_rx EXCEPT ![c] = @ + 1]
                    /\ forwarded' = [forwarded EXCEPT ![c] = Append(@, sent[watch_rx[c] + 1])]
                    /\ UNCHANGED send_task
               ELSE \* sender.send fails: break
                    /\ send_task' = [send_task EXCEPT ![c] = "done"]
                    /\ watch_rx' = MapRemove(watch_rx, c)
                    /\ UNCHANGED forwarded
    /\ UNCHANGED <<tailVars, since, missed, handler, recv_task, transport, frames>>

\* the turn for the events this program publishes: a WatchEvent holds strings
\* and parsed JSON values, whose serialization succeeds
send_step(c) == send_turn(c, TRUE)

\* a handler that returns after some time, whatever its tasks are doing
ws_select_Timeout(c) ==
    /\ handler[c] = "select"
    /\ handler' = [handler EXCEPT ![c] = "returned"]
    /\ UNCHANGED <<tailVars, watch_rx, subVars, recv_task, send_task, transport, frames, forwarded>>

\* tokio::select! over the two JoinHandles: handle_websocket returns when
\* either task has finished; dropping the other JoinHandle detaches that task
ws_select(c) ==
    /\ handler[c] = "select"
    /\ recv_task[c] = "done" \/ send_task[c] = "done"
    /\ handler' = [handler EXCEPT ![c] = "returned"]
    /\ UNCHANGED <<tailVars, watch_rx, subVars, recv_task, send_task, transport, frames, forwarded>>

\* -------------------------------------------------- terminal dashboard
\* src/tui.rs.  Lists are sequences, indices count from 0 as in the source;
\* the ListState of each list is set alongside its selected_* field and is
\* left out
ProjectNames == {"p", "q"}
AppModes == {"ProjectList", "SessionList", "ConversationView", "Export"}
KeyCodes == {"q", "Esc", "Enter", "Up", "Down", "e", "r", "s", "Tab"}
\* entries a session file holds
EntriesPerSession == 2

\* Vec::get
Get(list, index) == IF index < Len(list) THEN Some(list[index + 1]) ELSE None

\* usize::saturating_sub
saturating_sub(a, b) == IF a > b THEN a - b ELSE 0

\* the project directories that exist, in one of the orders the sort by
\* latest activity can give
Orders ==
    LET present == {n \in ProjectNames : disk[n] # None}
    IN  {o \in [1 .. Cardinality(present) -> present] :
            \A i, j \in DOMAIN o : i # j => o[i] # o[j]}

\* TuiApp::new
TuiNew ==
    [mode |-> "ProjectList",
     projects |-> <<>>,
     sessions |-> <<>>,
     conversation |-> <<>>,
     selected_project |-> Some(0),
     selected_session |-> None,
     selected_message |-> None,
     scroll_offset |-> 0,
     status_message |-> "Welcome",
     should_quit |-> FALSE,
     running |-> FALSE]

\* TuiApp::refresh_projects; cache_ok is the outcome of refresh_cache and
\* order the list it cached
refresh_projects(t, cache_ok, order) ==
    IF ~cache_ok
    THEN [t EXCEPT !.status_message = "Failed to refresh projects"]
    ELSE LET u == [t EXCEPT !.projects = order]
         IN  IF order = <<>>
             THEN [u EXCEPT !.status_message = "No projects found",
                            !.selected_project = None]
             ELSE IF u.selected_project = None
             THEN [u EXCEPT !.selected_project = Some(0)]
             ELSE u

\* TuiApp::refresh_sessions
refresh_sessions(t, project_name) ==
    IF disk[project_name] = None
    THEN [t EXCEPT !.status_message = "Project directory not found"]
    ELSE LET u == [t EXCEPT !.sessions = [i \in 1 .. disk[project_name][1] |-> i]]
         IN  IF u.sessions = <<>>
             THEN [u EXCEPT !.status_message = "No sessions found in project",
                            !.selected_session = None]
             ELSE IF u.selected_session = None
             THEN [u EXCEPT !.selected_session = Some(0)]
             ELSE u

\* TuiApp::refresh_conversation
refresh_conversation(t, project_name, session_id) ==
    IF disk[project_name] = None \/ session_id > disk[project_name][1]
    THEN [t EXCEPT !.status_message = "Session file not found"]
    ELSE [t EXCEPT !.conversation = [i \in 1 .. EntriesPerSession |-> i],
                   !.scroll_offset = 0]

\* the project and the session the selection points at, if it points at any
SelectedProject(t) ==
    IF t.selected_project = None THEN None ELSE Get(t.projects, t.selected_project[1])
SelectedSession(t) ==
    IF t.selected_session = None THEN None ELSE Get(t.sessions, t.selected_session[1])

\* KeyCode::Esc
on_esc(t) ==
    CASE t.mode = "SessionList" ->
            [t EXCEPT !.mode = "ProjectList", !.selected_session = None, !.sessions = <<>>]
      [] t.mode = "ConversationView" ->
            [t EXCEPT !.mode = "SessionList", !.selected_message = None,
                      !.conversation = <<>>, !.scroll_offset = 0]
      [] t.mode = "Export" -> [t EXCEPT !.mode = "ConversationView"]
      [] OTHER -> t

\* KeyCode::Enter
on_enter(t) ==
    CASE t.mode = "ProjectList" ->
            IF SelectedProject(t) = None THEN t
            ELSE [refresh_sessions(t, SelectedProject(t)[1]) EXCEPT
                     !.mode = "SessionList", !.selected_session = Some(0)]
      [] t.mode = "SessionList" ->
            IF SelectedSession(t) = None \/ SelectedProject(t) = None THEN t
            ELSE [refresh_conversation(t, SelectedProject(t)[1], SelectedSession(t)[1]) EXCEPT
                     !.mode = "ConversationView", !.selected_message = Some(0)]
      [] OTHER -> t

\* KeyCode::Up
on_up(t) ==
    CASE t.mode = "ProjectList" ->
            IF t.selected_project # None /\ t.selected_project[1] > 0
            THEN [t EXCEPT !.selected_project = Some(t.selected_project[1] - 1)]
            ELSE t
      [] t.mode = "SessionList" ->
            IF t.selected_session # None /\ t.selected_session[1] > 0
            THEN [t EXCEPT !.selected_session = Some(t.selected_session[1] - 1)]
            ELSE t
      [] t.mode = "ConversationView" ->
            IF t.scroll_offset > 0 THEN [t EXCEPT !.scroll_offset = @ - 1] ELSE t
      [] OTHER -> t

\* KeyCode::Down
on_down(t) ==
    CASE t.mode = "ProjectList" ->
            IF /\ t.selected_project # None
               /\ t.selected_project[1] < saturating_sub(Len(t.projects), 1)
            THEN [t EXCEPT !.selected_project = Some(t.selected_project[1] + 1)]
            ELSE t
      [] t.mode = "SessionList" ->
            IF /\ t.selected_session # None
               /\ t.selected_session[1] < saturating_sub(Len(t.sessions), 1)
            THEN [t EXCEPT !.selected_session = Some(t.selected_session[1] + 1)]
            ELSE t
      [] t.mode = "ConversationView" ->
            IF t.scroll_offset < saturating_sub(Len(t.conversation), 1)
            THEN [t EXCEPT !.scroll_offset = @ + 1]
            ELSE t
      [] OTHER -> t

\* an export screen that opens from every mode
on_char_e_Anywhere(t) == [t EXCEPT !.mode = "Export"]

\* KeyCode::Char('e')
on_char_e(t) == IF t.mode = "ConversationView" THEN [t EXCEPT !.mode = "Export"] ELSE t

\* KeyCode::Char('r'): the manual refresh
on_char_r(t, cache_ok, order) ==
    CASE t.mode = "ProjectList" ->
            [refresh_projects(t, cache_ok, order) EXCEPT
                !.status_message = "Projects refreshed"]
      [] t.mode = "SessionList" ->
            IF SelectedProject(t) = None THEN t
            ELSE [refresh_sessions(t, SelectedProject(t)[1]) EXCEPT
                     !.status_message = "Sessions refreshed"]
      [] t.mode = "ConversationView" ->
            IF SelectedProject(t) = None \/ SelectedSession(t) = None THEN t
            ELSE [refresh_conversation(t, SelectedProject(t)[1], SelectedSession(t)[1]) EXCEPT
                     !.status_message = "Conversation refreshed"]
      [] OTHER -> t

\* KeyCode::Char('s'): export_conversation, then back to the conversation
on_char_s(t) ==
    IF t.mode = "Export"
    THEN [t EXCEPT !.mode = "ConversationView",
                   !.status_message = IF t.conversation = <<>>
                                      THEN "No conversation to export"
                                      ELSE "Conversation exported"]
    ELSE t

\* TuiApp::handle_key_event
handle_key_event(t, key, cache_ok, order) ==
    CASE key = "q"     -> [t EXCEPT !.should_quit = TRUE]
      [] key = "Esc"   -> on_esc(t)
      [] key = "Enter" -> on_enter(t)
      [] key = "Up"    -> on_up(t)
      [] key = "Down"  -> on_down(t)
      [] key = "e"     -> on_char_e(t)
      [] key = "r"     -> on_char_r(t, cache_ok, order)
      [] key = "s"     -> on_char_s(t)
      [] OTHER         -> t

\* the periodic refresh of run_app, by mode
periodic_refresh(t, cache_ok, order) ==
    CASE t.mode = "ProjectList" -> refresh_projects(t, cache_ok, order)
      [] t.mode = "SessionList" ->
            IF SelectedProject(t) = None THEN t
            ELSE refresh_sessions(t, SelectedProject(t)[1])
      [] t.mode = "ConversationView" ->
            IF SelectedProject(t) = None \/ SelectedSession(t) = None THEN t
            ELSE refresh_conversation(t, SelectedProject(t)[1], SelectedSession(t)[1])
      [] OTHER -> t

tuiRest == <<files, fstat, active_sessions, sent, pending, writes, nextBody, inflight,
             startVars, watch_rx, subVars, connVars>>

\* TuiApp::run up to its loop: the first load of the projects
tui_run ==
    /\ ~tui.running
    /\ \E cache_ok \in BOOLEAN, order \in Orders :
          tui' = [refresh_projects(tui, cache_ok, order) EXCEPT !.running = TRUE]
    /\ UNCHANGED <<disk, tuiRest>>

\* one turn of run_app's loop that reads a key press
tui_key ==
    /\ tui.running /\ ~tui.should_quit
    /\ \E key \in KeyCodes, cache_ok \in BOOLEAN, order \in Orders :
          tui' = handle_key_event(tui, key, cache_ok, order)
    /\ UNCHANGED <<disk, tuiRest>>

\* one turn of run_app's loop in which the two seconds have passed
tui_tick ==
    /\ tui.running /\ ~tui.should_quit
    /\ \E cache_ok \in BOOLEAN, order \in Orders :
          tui' = periodic_refresh(tui, cache_ok, order)
    /\ UNCHANGED <<disk, tuiRest>>

\* project directories and session files come and go below the root
DiskChange ==
    /\ \E d \in [ProjectNames -> {None} \cup {Some(n) : n \in 0 .. MaxSessions}] :
          disk' = d
    /\ UNCHANGED <<tui, tuiRest>>

vars == <<tailVars, watch_rx, subVars, connVars>>

Init ==
    /\ files = [p \in WatchedPaths |-> <<>>]
    /\ fstat = [p \in WatchedPaths |-> "absent"]
    /\ active_sessions = <<>>
    /\ sent = <<>>
    /\ watch_rx = <<>>
    /\ pending = {}
    /\ writes = 0
    /\ nextBody = FirstBody
    /\ inflight = [i \in Invocations |-> None]
    /\ projects_dir_exists = TRUE
    /\ watch_manager = "running"
    /\ len_at_start = [p \in WatchedPaths |-> 0]
    /\ since = [r \in Receivers |-> 0]
    /\ missed = [r \in Receivers |-> 0]
    /\ delivered = [r \in Receivers |-> <<>>]
    /\ handler = [c \in Conns |-> "none"]
    /\ recv_task = [c \in Conns |-> "none"]
    /\ send_task = [c \in Conns |-> "none"]
    /\ transport = [c \in Conns |-> "open"]
    /\ frames = [c \in Conns |-> 0]
    /\ forwarded = [c \in Conns |-> <<>>]
    /\ tui = TuiNew
    /\ disk = [n \in ProjectNames |-> None]

\* the session file PA receives every kind of write, a burst when it is
\* created; its neighbours receive whole lines
Write ==
    \/ \E k \in WriteKinds \ {"burst"} : WriteFile(PA, k)
    \/ files[PA] = <<>> /\ WriteFile(PA, "burst")
    \/ WriteFile(PB, "line")
    \/ WriteFile(PT, "line")
\* every batch is reported as modified; the other kinds are reported for PA
Dispatch ==
    \/ \E b \in Batches : handle_fs_event("modify", b)
    \/ \E k \in EventKinds : handle_fs_event(k, <<PA>>)
Sub == subscribe("t1")
Drop == DropReceiver("t1")

Next == Write \/ Dispatch \/ Sub \/ Drop

Spec == Init /\ [][Next]_vars

\* ---- the dispatcher of the binary (src/main.rs)
MainDispatch ==
    \/ \E b \in Batches : main_handle_fs_event("modify", b)
    \/ \E k \in EventKinds : main_handle_fs_event(k, <<PA>>)

MainNext == Write \/ MainDispatch \/ Sub \/ Drop

MainSpec == Init /\ [][MainNext]_vars

\* ---- the broadcaster seen by receivers obtained from subscribe()
WriteFan == \E k \in {"line", "mixed"} : WriteFile(PA, k)
DispatchFan == handle_fs_event("modify", <<PA>>)
SubFan == \E r \in Direct : subscribe(r)
RecvFan == \E r \in Direct : recv(r)
DropFan == \E r \in Direct : DropReceiver(r)

FanNext == WriteFan \/ DispatchFan \/ SubFan \/ RecvFan \/ DropFan

FanSpec == Init /\ [][FanNext]_vars

\* ---- viewer connections
Connect == \E c \in Conns : ws_connect(c)
\* the first viewer sends frames and leaves in every way, the second only fails
Down == (\E how \in Endings : transport_down("c1", how)) \/ transport_down("c2", "error")
Inbound == \E f \in Frames : recv_frame("c1", f)
InboundEnd == \E c \in Conns : recv_end(c)
Outbound == \E c \in Conns : send_step(c)
Select == \E c \in Conns : ws_select(c)

WriteConn == WriteFile(PA, "mixed")

ConnNext ==
    WriteConn \/ DispatchFan \/ Connect \/ Down \/ Inbound \/ InboundEnd
        \/ Outbound \/ Select

ConnSpec == Init /\ [][ConnNext]_vars

\* the runtime schedules every spawned task and the handler, and the watcher
\* thread reports the changes it has seen; nothing obliges the external tool
\* to write or a viewer to leave
ConnFair ==
    /\ []<>(PA \notin pending) \/ []<><<DispatchFan>>_vars
    /\ \A c \in Conns :
          /\ WF_vars(recv_end(c))
          /\ WF_vars(send_step(c))
          /\ WF_vars(ws_select(c))

ConnLive == ConnSpec /\ ConnFair


\* ---- the callback's invocations taken in their two halves
WriteStep == \E k \in {"line", "bare", "nl", "burst"} : WriteFile(PA, k)
LookupStep == \E i \in Invocations, k \in {"modify", "remove"}, p \in {PA, PT} : fs_lookup(i, k, p)
CompleteStep == \E i \in Invocations : fs_complete(i)

StepNext == WriteStep \/ LookupStep \/ CompleteStep \/ Sub \/ Drop

StepSpec == Init /\ [][StepNext]_vars


\* ---- files that are emptied, unreadable or gone
WriteErr == (\E k \in {"line", "bare"} : WriteFile(PA, k)) \/ WriteFile(PB, "line")
Truncate == TruncateFile(PA)
Chmod == \E ok \in BOOLEAN : SetReadable(PA, ok)
Remove == RemoveFile(PA)
DispatchErr ==
    \E b \in {<<PA>>, <<PB>>, <<PA, PB>>, <<PB, PA>>} : handle_fs_event("modify", b)

ErrNext == WriteErr \/ Truncate \/ Chmod \/ Remove \/ DispatchErr \/ Sub \/ Drop

ErrSpec == Init /\ [][ErrNext]_vars


\* ---- two log files at different depths below the watched root
WriteDeep == \E p \in {PA, PD}, k \in {"line", "bare"} : WriteFile(p, k)
DispatchDeep == \E p \in {PA, PD} : handle_fs_event("modify", <<p>>)

KeyNext == WriteDeep \/ DispatchDeep \/ Sub \/ Drop

KeySpec == Init /\ [][KeyNext]_vars

\* ---- one viewer whose forwarder may fail to serialize an event
WriteSer == \E k \in {"line", "bare", "nl"} : WriteFile(PA, k)
ConnectSer == ws_connect("c1")
OutboundSer == \E json_ok \in BOOLEAN : send_turn("c1", json_ok)
DownSer == transport_down("c1", "error")
SerNext == WriteSer \/ DispatchFan \/ ConnectSer \/ OutboundSer \/ DownSer
SerSpec == Init /\ [][SerNext]_vars

\* ---- one file that only grows, by whole lines, pieces of lines and a burst
WritePrefix ==
    \/ \E k \in {"line", "open", "close", "text", "nl", "bare"} : WriteFile(PA, k)
    \/ files[PA] = <<>> /\ WriteFile(PA, "burst")
PrefixNext == WritePrefix \/ DispatchFan \/ Sub \/ Drop
PrefixSpec == Init /\ [][PrefixNext]_vars

\* ---- one file whose lines end in "\n" or "\r\n", whole or in pieces
WriteRead ==
    \E k \in {"line", "crlf", "bare", "nl", "text", "open", "close"} : WriteFile(PA, k)
ReadNext == WriteRead \/ DispatchFan \/ Sub \/ Drop
ReadSpec == Init /\ [][ReadNext]_vars

\* ---- notifications of every kind for two session files
WriteKind == \E p \in {PA, PB}, k \in {"line", "bare"} : WriteFile(p, k)
DispatchKind ==
    \E k \in {"create", "modify"} \cup OtherKinds, b \in {<<PA>>, <<PB>>, <<PA, PB>>} :
        handle_fs_event(k, b)
KindNext == WriteKind \/ DispatchKind \/ Sub \/ Drop
KindSpec == Init /\ [][KindNext]_vars

\* ---- one viewer that sends frames and leaves in every way
DownIn == \E how \in Endings : transport_down("c1", how)
InboundEndIn == recv_end("c1")
OutboundIn == send_step("c1")
SelectIn == ws_select("c1")
InNext ==
    WriteSer \/ DispatchFan \/ ConnectSer \/ Inbound \/ DownIn \/ InboundEndIn
        \/ OutboundIn \/ SelectIn
InSpec == Init /\ [][InNext]_vars

\* ---- lines that carry members LogEntry does not name
WritePass == \E k \in {"line", "extra", "both"} : WriteFile(PA, k)
PassNext == WritePass \/ DispatchFan \/ Sub \/ Drop
PassSpec == Init /\ [][PassNext]_vars

\* ---- the terminal dashboard over a changing projects directory
TuiNext == tui_run \/ tui_key \/ tui_tick \/ DiskChange
TuiSpec == Init /\ [][TuiNext]_vars

\* ------------------------------------------------------------------ startup
\* watcher.watch(&projects_dir, RecursiveMode::Recursive): the recursive watch
\* stats the root, so it is an error when the root does not exist
watch_Lenient == TRUE
watch == projects_dir_exists

\* WatchManager::new: channel, map and watcher are built, then the root is
\* watched; the ? hands the watch error to the caller and no manager exists.
\* The watcher reports the changes made from now on
WatchManager_new ==
    /\ watch_manager = "none"
    /\ watch_manager' = IF watch THEN "running" ELSE "failed"
    /\ len_at_start' = [p \in WatchedPaths |-> Len(files[p])]
    /\ pending' = {}
    /\ UNCHANGED <<files, fstat, active_sessions, sent, writes, nextBody,
                   inflight, projects_dir_exists, watch_rx, subVars, connVars, tuiVars>>

\* main: a missing root ends the process with status 1 before AppState::new,
\* otherwise AppState::new builds the manager
main ==
    /\ watch_manager = "none"
    /\ watch_manager' = IF ~projects_dir_exists THEN "exited"
                        ELSE IF watch THEN "running" ELSE "failed"
    /\ len_at_start' = [p \in WatchedPaths |-> Len(files[p])]
    /\ pending' = {}
    /\ UNCHANGED <<files, fstat, active_sessions, sent, writes, nextBody,
                   inflight, projects_dir_exists, watch_rx, subVars, connVars, tuiVars>>

\* the root directory is created by somebody else, before or after startup
CreateRoot ==
    /\ ~projects_dir_exists
    /\ projects_dir_exists' = TRUE
    /\ UNCHANGED <<files, fstat, active_sessions, sent, pending, writes, nextBody,
                   inflight, watch_manager, len_at_start, watch_rx, subVars, connVars, tuiVars>>

StartInit ==
    /\ files = [p \in WatchedPaths |-> <<>>]
    /\ fstat = [p \in WatchedPaths |-> "absent"]
    /\ active_sessions = <<>>
    /\ sent = <<>>
    /\ watch_rx = <<>>
    /\ pending = {}
    /\ writes = 0
    /\ nextBody = FirstBody
    /\ inflight = [i \in Invocations |-> None]
    /\ projects_dir_exists \in BOOLEAN
    /\ watch_manager = "none"
    /\ len_at_start = [p \in WatchedPaths |-> 0]
    /\ since = [r \in Receivers |-> 0]
    /\ missed = [r \in Receivers |-> 0]
    /\ delivered = [r \in Receivers |-> <<>>]
    /\ handler = [c \in Conns |-> "none"]
    /\ recv_task = [c \in Conns |-> "none"]
    /\ send_task = [c \in Conns |-> "none"]
    /\ transport = [c \in Conns |-> "open"]
    /\ frames = [c \in Conns |-> 0]
    /\ forwarded = [c \in Conns |-> <<>>]
    /\ tui = TuiNew
    /\ disk = [n \in ProjectNames |-> None]

\* files can be written once the root exists; the watcher callback and
\* subscribe() exist only while a manager does
WriteStart ==
    /\ projects_dir_exists
    /\ \E p \in {PA, PB}, k \in {"line", "bare"} : WriteFile(p, k)
DispatchStart ==
    /\ watch_manager = "running"
    /\ \E k \in {"create", "modify"}, p \in {PA, PB} : handle_fs_event(k, <<p>>)
SubStart == watch_manager = "running" /\ subscribe("t1")
DropStart == watch_manager = "running" /\ DropReceiver("t1")
StartNext ==
    \/ WatchManager_new
    \/ main
    \/ CreateRoot
    \/ WriteStart
    \/ DispatchStart
    \/ SubStart
    \/ DropStart
StartSpec == StartInit /\ [][StartNext]_vars

\* ------------------------------------------------------------ observations
\* the events of sent that belong to the stream of path p
StreamEvents(p) ==
    SelectSeq(sent, LAMBDA e : e.project = p.parent /\ e.session = Some(p.stem))

\* the entries published for the stream of p, in publication order
Published(p) ==
    LET events == StreamEvents(p)
    IN  [i \in DOMAIN events |-> events[i].entry[1]]

\* what the reader finds in the whole file, and from the tracked offset on
AllEntries(p) == read_new_entries(p, 0)
TrackedOffset(p) ==
    IF SessionKey(p) \in DOMAIN active_sessions
    THEN active_sessions[SessionKey(p)].last_position
    ELSE 0
Unread(p) == read_new_entries(p, TrackedOffset(p))
Entries(entries_with_positions) ==
    [i \in DOMAIN entries_with_positions |-> entries_with_positions[i][1]]

NoDup(seq) == \A i, j \in DOMAIN seq : i # j => seq[i] # seq[j]

IsPrefix(a, b) == Len(a) <= Len(b) /\ a = SubSeq(b, 1, Len(a))

\* every published entry is still a line of the file: the file has only grown
\* by whole lines since
Intact(p) ==
    LET published == Published(p)
    IN  published = <<>>
            \/ SeqRange(published) \subseteq SeqRange(Entries(AllEntries(p)))

\* the lines of a text, split at "\n" from the front
RECURSIVE SplitLines(_)
SplitLines(text) ==
    IF text = <<>> THEN <<>>
    ELSE LET nls == {i \in DOMAIN text : text[i] = NL}
             k == IF nls = {} THEN Len(text) + 1
                  ELSE CHOOSE i \in nls : \A j \in nls : i <= j
         IN  <<SubSeq(text, 1, k - 1)>> \o SplitLines(SubSeq(text, k + 1, Len(text)))

\* a line that is one JSON object with one member
IsObjectLine(line) ==
    Len(line) = 3 /\ line[1] = LBRACE /\ line[2] \in BodyBytes /\ line[3] = RBRACE

\* the entries of the well-formed lines of a text, in file order
Expected(text) ==
    LET good == SelectSeq(SplitLines(text), IsObjectLine)
    IN  [i \in DOMAIN good |-> [uuid |-> Some(good[i][2])]]

\* the file exists and each of its lines is a well-formed object
Fresh(p) ==
    /\ fstat[p] = "file"
    /\ files[p] # <<>>
    /\ LET lines == SplitLines(files[p])
       IN  \A i \in DOMAIN lines : IsObjectLine(lines[i])

\* this step is a create or modify dispatch that names p, the last change of
\* p having been unreported until now
Dispatched(p) == p \in pending /\ p \notin pending'

Max(a, b) == IF a > b THEN a ELSE b

\* Unread(p) in the state a step leads to
UnreadAfter(p) ==
    IF fstat'[p] # "file" THEN <<>>
    ELSE ScanLines(files'[p], TrackedOffset(p)', 0, <<>>)

TypeOK ==
    /\ \A p \in Paths : fstat[p] \in {"absent", "file", "noread"}
    /\ writes \in 0 .. MaxWrites

\* ------------------------------------------------------------------ claims

\* C1: incremental only.  No entry of a stream is published twice, and for a
\* file that has only grown by whole lines the events still to come are as
\* many as the well-formed lines not yet published: after N published lines,
\* M appended lines make M further events, never N + M.
C1_IncrementalOnly ==
    \A p \in LogPaths :
        /\ NoDup(Published(p))
        /\ Intact(p) =>
              Len(Published(p)) + Len(Unread(p)) = Len(AllEntries(p))

\* one line was published alone, a second line was appended and published
C1_Witness ==
    /\ files[PA] = Lines(FirstBody, 2)
    /\ since["t1"] = 1
    /\ Len(Published(PA)) = 2
    /\ Unread(PA) = <<>>

EndOffset(p, entry) ==
    LET all == AllEntries(p)
        hit == CHOOSE i \in DOMAIN all : all[i][1] = entry
    IN  all[hit][2]

\* C4: a dispatch that emits entries for a path leaves the tracked offset of its
\* stream at the end offset of the last entry it emitted, and not at the end of
\* the file while well-formed lines remain unread.
C4_OffsetIsLastEmitted ==
    [][\A p \in LogPaths :
          Len(Published(p)') > Len(Published(p))
              => LET last == Published(p)'[Len(Published(p)')]
                     end == EndOffset(p, last)
                 IN  /\ TrackedOffset(p)' = end
                     /\ Len(read_new_entries(p, end)) > 0
                            => TrackedOffset(p)' # Len(files[p])]_vars

\* C5: one invocation of the dispatcher publishes at most 10 events, however
\* many paths the notification names.
C5_BatchCap == [][Len(sent') - Len(sent) <= max_entries_per_event]_vars

\* C6: malformed lines are tolerated.  The reader returns exactly the entries
\* of the well-formed lines, whatever malformed lines lie between them; the
\* published entries are a duplicate-free prefix of them; and a dispatch made
\* while a subscriber is registered, with at most 10 lines outstanding, leaves
\* exactly one event per well-formed line.
C6_MalformedTolerance ==
    /\ [](\A p \in LogPaths :
            /\ fstat[p] = "file" => Entries(AllEntries(p)) = Expected(files[p])
            /\ Intact(p) => IsPrefix(Published(p), Expected(files[p])))
    /\ [][\A p \in LogPaths :
            (/\ Dispatched(p)
             /\ DOMAIN watch_rx # {}
             /\ Intact(p)
             /\ Len(Unread(p)) <= max_entries_per_event)
                => Published(p)' = Expected(files[p])]_vars

\* a file with non-JSON, truncated, empty and unparsable lines around two
\* well-formed lines, whose two entries are published
C6_Witness ==
    /\ files[PA] = Chunk("mixed", FirstBody)
    /\ Len(Published(PA)) = 2
    /\ Published(PA) = Expected(files[PA])

\* ---------------------------------------------------------------- C7
\* C7: once a connection's transport is closed, failed or ended, its inbound
\* task and its outbound task both finish and its receiver is released, even
\* if no further event is ever published.  Under ConnLive the tasks and the
\* handler are scheduled fairly and nothing obliges the tool to write.
C7_Teardown ==
    \A c \in Conns :
        (handler[c] # "none" /\ transport[c] \in Endings)
            ~> (recv_task[c] = "done" /\ send_task[c] = "done"
                    /\ c \notin DOMAIN watch_rx)

\* ---------------------------------------------------------------- C8
\* C8: once the outbound task of a connection has finished, its inbound task
\* finishes as well: no task stays behind running for ever.
C8_JointCancellation ==
    \A c \in Conns : (send_task[c] = "done") ~> (recv_task[c] = "done")

\* ---------------------------------------------------------------- C9
\* the events published since r registered
PublishedSince(r) == SubSeq(sent, since[r] + 1, Len(sent))

\* C9: what a registered receiver that has met no overflow has received is,
\* in order, a copy of the events published since it registered, up to where
\* it has got; nothing published before it registered is among them, and
\* every later event is still there for it to receive, whatever the other
\* receivers have done.
C9_FanOut ==
    \A r \in Direct \cap DOMAIN watch_rx :
        missed[r] = 0 =>
            /\ since[r] <= watch_rx[r]
            /\ watch_rx[r] <= Len(sent)
            /\ delivered[r] = SubSeq(sent, since[r] + 1, watch_rx[r])
            /\ IsPrefix(delivered[r], PublishedSince(r))
            /\ (watch_rx[r] < Len(sent) /\ ~Lagging(r)) => ENABLED recv(r)

\* two receivers registered at different times have both received events; the
\* later one has none of the events published before it registered
C9_Witness ==
    /\ {"t1", "t2"} \subseteq DOMAIN watch_rx
    /\ missed["t1"] = 0 /\ missed["t2"] = 0
    /\ since["t1"] < since["t2"]
    /\ Len(delivered["t1"]) > since["t2"] - since["t1"]
    /\ delivered["t2"] # <<>>
    /\ delivered["t2"][1] = sent[since["t2"] + 1]
    /\ delivered["t2"][1] # delivered["t1"][1]

\* ---------------------------------------------------------------- C10
\* C10 as stated: a connection for which more than ChannelCapacity events
\* are pending keeps its subscription while its transport is open, so as to
\* resume from the retained events.
C10_Original ==
    [][\A c \in Conns :
          (Lagging(c) /\ transport[c] = "open") => c \in DOMAIN watch_rx']_vars

\* C10: a connection for which more than ChannelCapacity events are pending
\* is forwarded nothing more: its receiver stays where it is until the
\* outbound task meets the overflow, and then the task ends and the receiver
\* is released.  What it was forwarded is the unbroken run of events from its
\* registration on.
C10_LaggingConnectionEnds ==
    [][\A c \in Conns :
          /\ Lagging(c) =>
                /\ delivered'[c] = delivered[c]
                /\ IF c \in DOMAIN watch_rx'
                   THEN watch_rx'[c] = watch_rx[c] /\ send_task'[c] = send_task[c]
                   ELSE send_task'[c] = "done"
          /\ IsPrefix(delivered'[c], SubSeq(sent', since'[c] + 1, Len(sent')))
      ]_vars

\* a connection whose outbound task met the overflow: the task has ended with
\* the transport open, and events published since registration were not
\* forwarded
C10_Witness ==
    \E c \in Conns :
        /\ send_task[c] = "done"
        /\ transport[c] = "open"
        /\ c \notin DOMAIN watch_rx
        /\ Len(sent) - since[c] > ChannelCapacity
        /\ Len(delivered[c]) < Len(sent) - since[c]

\* ---------------------------------------------------------------- C11
\* a connection's receiver is registered by the step that starts its handler
SubscriptionCreated ==
    [][\A c \in Conns :
          (handler[c] = "none" /\ handler'[c] # "none")
              => (c \in DOMAIN watch_rx' /\ watch_rx'[c] = Len(sent))]_vars

\* a connection whose subscription has overflowed loses its subscription
SubscriptionEndsOnOverflow ==
    \A c \in Conns : Lagging(c) ~> (c \notin DOMAIN watch_rx)

\* a connection whose viewer has gone loses its subscription
SubscriptionEndsOnDisconnect ==
    \A c \in Conns :
        (handler[c] # "none" /\ transport[c] \in Endings)
            ~> (c \notin DOMAIN watch_rx)

\* C11: a connection's subscription is created when the viewer connects and
\* is destroyed when the viewer disconnects or when it has fallen more than
\* the channel's capacity behind.
C11_SubscriptionLifetime ==
    /\ SubscriptionCreated
    /\ SubscriptionEndsOnOverflow
    /\ SubscriptionEndsOnDisconnect

\* ---------------------------------------------------------------- C12
\* C12: publishing never waits for a receiver.  A dispatch made while some
\* receiver is registered publishes the unread entries of the file up to the
\* batch limit, wherever the receivers stand, lagging ones included; and a
\* receiver that is not itself behind by more than the channel's capacity can
\* take its next pending event, which is the next one published, whatever
\* the other receivers have or have not received.
C12_PublishNeverBlocks ==
    /\ [][(Dispatched(PA) /\ DOMAIN watch_rx # {})
            => Len(sent') = Len(sent) + Min(Len(Unread(PA)), max_entries_per_event)]_vars
    /\ [](\A r \in Direct \cap DOMAIN watch_rx :
            (~Lagging(r) /\ watch_rx[r] < Len(sent)) => ENABLED recv(r))
    /\ [][\A r \in Direct :
            (/\ r \in DOMAIN watch_rx
             /\ ~Lagging(r)
             /\ Len(delivered'[r]) > Len(delivered[r]))
                => delivered'[r] = Append(delivered[r], sent[watch_rx[r] + 1])]_vars

\* one receiver has overflowed and received nothing, a dispatch has published
\* since, and the other receiver has received every event published
C12_Witness ==
    /\ {"t1", "t2"} \subseteq DOMAIN watch_rx
    /\ Lagging("t1") /\ delivered["t1"] = <<>>
    /\ since["t2"] = 0
    /\ watch_rx["t2"] = Len(sent)
    /\ delivered["t2"] = sent
    /\ Len(sent) > ChannelCapacity

\* ---------------------------------------------------------------- C13
\* the end offsets, in publication order, of the published entries of p that
\* are lines of its file
PublishedOffsets(p) ==
    LET all == AllEntries(p)
        published == Published(p)
    IN  [i \in DOMAIN published |->
            LET hit == CHOOSE k \in DOMAIN all : all[k][1] = published[i]
            IN  all[hit][2]]

\* C13: the events of one stream are published in ascending file offset
\* order, within one dispatch and from one dispatch to the next.
C13_StreamOrder ==
    \A p \in LogPaths :
        Intact(p) =>
            LET offsets == PublishedOffsets(p)
            IN  \A i, j \in DOMAIN offsets : i < j => offsets[i] < offsets[j]

\* one line was published by a first dispatch, and the two well-formed lines
\* of a later write, with malformed lines between them, by a second one
C13_Witness ==
    /\ files[PA] = Lines(FirstBody, 1) \o Chunk("mixed", FirstBody + 1)
    /\ since["t1"] = 1
    /\ Len(Published(PA)) = 3
    /\ PublishedOffsets(PA) = <<4, 10, 22>>

C15_OffsetMonotone ==
    [][\A key \in DOMAIN active_sessions :
          /\ key \in DOMAIN active_sessions'
          /\ active_sessions'[key].last_position >= active_sessions[key].last_position]_vars

\* the file was emptied and written again below the tracked offset, and the
\* dispatch of that change has left the offset where it was
C15_Witness ==
    /\ fstat[PA] = "file"
    /\ files[PA] # <<>>
    /\ PA \notin pending
    /\ TrackedOffset(PA) > Len(files[PA])

\* ---------------------------------------------------------------- C16
\* the entries a dispatch would read from the tracked offset of p, were the
\* file readable
BytesToRead(p) == ScanLines(files[p], TrackedOffset(p), 0, <<>>)

\* C16: a dispatch made while the file cannot be read publishes nothing for
\* its stream and leaves the tracked offset unchanged, so that the entries to
\* be read from it are the same afterwards; and the dispatch made once the
\* file is readable again, with a subscriber registered, publishes them, the
\* first 10 at most.
C16_TransientReadError ==
    [][\A p \in LogPaths :
          Dispatched(p) =>
              /\ fstat[p] = "noread" =>
                    /\ Published(p)' = Published(p)
                    /\ TrackedOffset(p)' = TrackedOffset(p)
                    /\ ScanLines(files'[p], TrackedOffset(p)', 0, <<>>) = BytesToRead(p)
              /\ (fstat[p] = "file" /\ DOMAIN watch_rx # {}) =>
                    Published(p)' =
                        Published(p) \o SubSeq(Entries(BytesToRead(p)), 1,
                            Min(Len(BytesToRead(p)), max_entries_per_event))]_vars

\* a line was published, a second line was appended and the file then became
\* unreadable; the dispatch of that change, made with a subscriber registered,
\* has published nothing and left the offset after the first line
C16_Witness ==
    /\ fstat[PA] = "noread"
    /\ PA \notin pending
    /\ DOMAIN watch_rx # {}
    /\ since["t1"] = 0
    /\ Len(Published(PA)) = 1
    /\ TrackedOffset(PA) = 4
    /\ Len(BytesToRead(PA)) = 1

\* ---------------------------------------------------------------- C17
\* C17: in a batch that names a path that cannot be read, or whose metadata
\* is missing, and a readable one, the failing path publishes nothing and
\* the readable one is read, published and advanced as if it were alone,
\* whichever comes first in the batch; dispatches go on afterwards.
C17_PathIsolation ==
    [][(/\ Dispatched(PA) /\ Dispatched(PB)
        /\ fstat[PA] # "file" /\ fstat[PB] = "file"
        /\ DOMAIN watch_rx # {})
          => LET unread == Unread(PB)
                 n == Min(Len(unread), max_entries_per_event)
             IN  /\ Published(PA)' = Published(PA)
                 /\ Published(PB)' = Published(PB) \o SubSeq(Entries(unread), 1, n)
                 /\ TrackedOffset(PB)' =
                        (IF n = 0 THEN TrackedOffset(PB) ELSE unread[n][2])]_vars

\* the first file holds a line and cannot be read, the second file's line
\* was published, and both changes have been dispatched
C17_Witness ==
    /\ fstat[PA] # "file" /\ fstat[PB] = "file"
    /\ PA \notin pending /\ PB \notin pending
    /\ SessionKey(PA) \in DOMAIN active_sessions
    /\ Published(PA) = <<>>
    /\ files[PA] # <<>>
    /\ Len(Published(PB)) = 1
    /\ TrackedOffset(PB) = Len(files[PB])

\* ---------------------------------------------------------------- C18
\* the step changes the transport or an activity of connection c
StepOf(c) ==
    \/ transport'[c] # transport[c]
    \/ recv_task'[c] # recv_task[c]
    \/ send_task'[c] # send_task[c]
    \/ handler'[c] # handler[c]

\* what connection d holds: its transport, its activities and its receiver
ConnState(d) ==
    <<transport[d], recv_task[d], send_task[d], handler[d], delivered[d],
      IF d \in DOMAIN watch_rx THEN Some(watch_rx[d]) ELSE None>>

C19_NonMatchingIgnored ==
    /\ [][(Dispatched(PT) /\ handle_fs_event("modify", <<PT>>))
            => (sent' = sent /\ active_sessions' = active_sessions)]_vars
    /\ [][(Dispatched(PT) /\ handle_fs_event("modify", <<PT, PA>>))
            => LET alone == ProcessPath(PA, [sessions |-> active_sessions, sent |-> sent])
               IN  sent' = alone.sent /\ active_sessions' = alone.sessions]_vars
    /\ [](\A i \in DOMAIN sent :
            sent[i].entry[1] \notin SeqRange(Entries(ScanLines(files[PT], 0, 0, <<>>))))

\* the text file holds a well-formed line, its change has been dispatched
\* with a subscriber registered, and nothing is published or tracked
C19_Witness ==
    /\ Len(ScanLines(files[PT], 0, 0, <<>>)) > 0
    /\ PT \notin pending
    /\ "t1" \in DOMAIN watch_rx
    /\ sent = <<>>
    /\ active_sessions = <<>>

\* ---------------------------------------------------------------- C20
\* the offset that the dispatch of p leaves when its sends succeed: the end
\* of the last of the first 10 unread entries
OffsetAfterSends(p) ==
    LET unread == Unread(p)
        n == Min(Len(unread), max_entries_per_event)
    IN  IF n = 0 THEN TrackedOffset(p) ELSE unread[n][2]

\* C20: the offset a dispatch leaves depends on the file and on the offset
\* before it only; it is the same with no receiver, one or two, namely the
\* one it leaves when its sends succeed.
C20_OffsetIgnoresSubscribers ==
    [][Dispatched(PA) => TrackedOffset(PA)' = OffsetAfterSends(PA)]_vars

\* ---------------------------------------------------------------- C21
\* C21: a dispatch made while no receiver is registered delivers nothing and
\* treats the entries as a dispatch with receivers does: the stream's offset
\* moves past the entries it has handled.
C21_PublishWithoutSubscribers ==
    [][(Dispatched(PA) /\ DOMAIN watch_rx = {}) =>
          /\ sent' = sent
          /\ delivered' = delivered
          /\ TrackedOffset(PA)' = OffsetAfterSends(PA)]_vars

\* ---------------------------------------------------------------- C22
\* C22: two distinct log files below the watched root do not share a stream
\* identity: the dispatch of the deeper file neither reads nor overwrites the
\* tracked offset of the other file.
C22_UniqueIdentity ==
    [][(Dispatched(PD) /\ ~Dispatched(PA)) =>
          /\ current_pos(active_sessions', SessionKey(PA))
                = current_pos(active_sessions, SessionKey(PA))
          /\ (DOMAIN watch_rx # {} /\ Len(read_new_entries(PD, 0)) <= max_entries_per_event)
                => Len(sent') >= Len(read_new_entries(PD, 0))]_vars

C24_SerializationFailure ==
    [][\A c \in Conns :
          (c \in DOMAIN watch_rx /\ delivered'[c] # delivered[c] /\ transport[c] = "open")
             => /\ send_task'[c] = "running"
                /\ c \in DOMAIN watch_rx'
                /\ watch_rx'[c] = watch_rx[c] + 1
                /\ forwarded'[c] \in {forwarded[c], Append(forwarded[c], sent[watch_rx[c] + 1])}
                /\ send_turn(c, TRUE)
                      => forwarded'[c] = Append(forwarded[c], sent[watch_rx[c] + 1])
                /\ send_turn(c, FALSE) => forwarded'[c] = forwarded[c]]_vars

\* the first of two events failed to serialize and the second was sent
C24_Witness ==
    /\ Len(delivered["c1"]) = 2
    /\ forwarded["c1"] = <<delivered["c1"][2]>>
    /\ send_task["c1"] = "running"
    /\ transport["c1"] = "open"

\* the entries of the lines a file held when the manager was built
EntriesAtStart(p) ==
    Entries(ScanLines(SubSeq(files[p], 1, len_at_start[p]), 0, 0, <<>>))

\* C25: a manager publishes only content appended after it was built: no
\* event of a stream carries a line the file already held at that moment.
C25_OnlyAppended ==
    watch_manager = "running" =>
        \A p \in {PA, PB} :
            LET published == Published(p)
                before == EntriesAtStart(p)
            IN  \A i \in DOMAIN published :
                    \A j \in DOMAIN before : published[i] # before[j]

\* C26: every event published has kind "log_entry", is labelled with the name
\* of the immediate parent directory of the file it came from and with that
\* file's stem, and carries an entry, which is an entry of that file.
C26_EventShape ==
    [][\A i \in (Len(sent) + 1) .. Len(sent') :
          LET e == sent'[i]
          IN  /\ e.event_type = "log_entry"
              /\ e.session # None
              /\ e.entry # None
              /\ \E p \in WatchedPaths :
                    /\ p.ext = "jsonl"
                    /\ e.project = p.parent
                    /\ e.session = Some(p.stem)
                    /\ \E k \in DOMAIN AllEntries(p) : e.entry = Some(AllEntries(p)[k][1])]_vars

\* events of two files in different project directories have been published
C26_Witness ==
    /\ StreamEvents(PA) # <<>>
    /\ StreamEvents(PB) # <<>>
    /\ Len(sent) = 2

\* the members of the object a line holds, and the members an entry carries
\* (the fields that are not null)
SourceMembers(line) == {line[i] : i \in 2 .. (Len(line) - 1)}
EntryMembers(entry) == IF entry.uuid = None THEN {} ELSE {entry.uuid[1]}

\* C27: schema-agnostic pass-through.  The entry of an event carries every
\* member of the object on the source line, named by LogEntry or not, and no
\* other.  (The file holds whole object lines only, so the i-th entry
\* published is that of the i-th line.)
C27_PassThrough ==
    LET published == Published(PA)
        lines == SplitLines(files[PA])
    IN  /\ Len(published) <= Len(lines)
        /\ \A i \in DOMAIN published :
              EntryMembers(published[i]) = SourceMembers(lines[i])

\* C28: a stream with no tracked position is read from offset 0: the dispatch
\* that creates the position publishes the entries of the file from its first
\* line on (as many as one dispatch emits), and a position, once created, is
\* never removed, whatever happens to the file.
C28_UnseenFromZero ==
    [][/\ DOMAIN active_sessions \subseteq DOMAIN active_sessions'
       /\ \A p \in LogPaths :
             (SessionKey(p) \notin DOMAIN active_sessions
                 /\ SessionKey(p) \in DOMAIN active_sessions')
                => LET all == AllEntries(p)
                   IN  Published(p)' = Entries(SubSeq(all, 1, Emitted(all)))]_vars

\* the stream of a file was created by a dispatch that published its first
\* line, and the position outlives the file
C28_Witness ==
    /\ SessionKey(PA) \in DOMAIN active_sessions
    /\ Len(Published(PA)) >= 1
    /\ fstat[PA] = "absent"

RECURSIVE LineStart(_, _)
LineStart(lines, i) ==
    IF i = 1 THEN 0 ELSE LineStart(lines, i - 1) + Len(lines[i - 1]) + 1

\* the well-formed lines of a text that start at or after from, in file
\* order, each with the offset just past it: its newline included, or the end
\* of the text for an unterminated last line
LinesFrom(text, from) ==
    LET lines == SplitLines(text)
        kept == SelectSeq([i \in DOMAIN lines |-> i],
                          LAMBDA i : /\ LineStart(lines, i) >= from
                                     /\ LooksLikeJson(lines[i])
                                     /\ ParseOk(lines[i]))
    IN  [n \in DOMAIN kept |->
            <<ParseLogEntry(lines[kept[n]]),
              Min(LineStart(lines, kept[n]) + Len(lines[kept[n]]) + 1, Len(text))>>]

\* the reader of src/lib.rs returns the well-formed lines from an offset on
\* with their end offsets, and reading from the end offset of an entry
\* returns the entries after it with the same end offsets
LibOffsetsCompose ==
    LET all == LinesFrom(files[PA], 0)
    IN  /\ \A from \in 0 .. Len(files[PA]) :
              read_new_entries(PA, from) = LinesFrom(files[PA], from)
        /\ \A k \in DOMAIN all :
              read_new_entries(PA, all[k][2]) = SubSeq(all, k + 1, Len(all))

\* the reader of src/main.rs returns the entries of those lines
MainOffsetsCompose ==
    LET all == LinesFrom(files[PA], 0)
    IN  /\ \A from \in 0 .. Len(files[PA]) :
              main_read_new_entries(PA, from) = Entries(LinesFrom(files[PA], from))
        /\ \A k \in DOMAIN all :
              main_read_new_entries(PA, all[k][2]) = Entries(SubSeq(all, k + 1, Len(all)))

\* C30: the reader's offsets compose, in both copies of the reader: it
\* returns, in file order, exactly the well-formed lines that start at or
\* after the given offset, each with the offset just past its line, so that
\* reading from the end offset of an entry returns exactly the entries after it.
C30_OffsetsCompose == fstat[PA] = "file" => (LibOffsetsCompose /\ MainOffsetsCompose)

\* C31: a dispatch that runs while no receiver is registered consumes no
\* entry: nothing is published, the tracked offset stays where it was and the
\* same lines are still to be read; a dispatch that runs once a receiver is
\* registered publishes those lines, the first of them first.
C31_NothingConsumedWithoutSubscribers ==
    [][/\ (DispatchFan /\ DOMAIN watch_rx = {}) =>
             /\ sent' = sent
             /\ TrackedOffset(PA)' = TrackedOffset(PA)
             /\ UnreadAfter(PA) = Unread(PA)
       /\ (DispatchFan /\ DOMAIN watch_rx # {}) =>
             LET unread == Unread(PA)
                 n == Min(Len(unread), max_entries_per_event)
             IN  sent' = sent \o [i \in 1 .. n |-> WatchEvent(PA, unread[i][1])]]_vars

\* a dispatch has run for a file with a complete line while nobody was
\* registered: the stream exists, its offset is 0 and the line is unread
C31_Witness ==
    /\ SessionKey(PA) \in DOMAIN active_sessions
    /\ TrackedOffset(PA) = 0
    /\ Len(Unread(PA)) >= 1
    /\ PA \notin pending
    /\ sent = <<>>

\* the file ends in a line that has no newline yet and is not an object
IncompleteLastLine(p) ==
    /\ fstat[p] = "file"
    /\ files[p] # <<>>
    /\ files[p][Len(files[p])] # NL
    /\ LET lines == SplitLines(files[p])
           last == lines[Len(lines)]
       IN  ~(LooksLikeJson(last) /\ ParseOk(last))

\* where that last line starts
LastLineStart(p) ==
    LET lines == SplitLines(files[p])
    IN  LineStart(lines, Len(lines))

\* C32: partially written last line.  While the last line of a file is not
\* yet a complete object, no step that leaves the file alone moves the
\* tracked offset of its stream past the start of that line, so that the line
\* is still to be read when an append completes it.
C32_PartialLastLine ==
    [][\A p \in LogPaths :
          (/\ files'[p] = files[p]
           /\ fstat'[p] = fstat[p]
           /\ IncompleteLastLine(p)
           /\ TrackedOffset(p) <= LastLineStart(p))
             => TrackedOffset(p)' <= LastLineStart(p)]_vars

\* C33: the tracked offset is never reset.  It never moves back, whatever
\* happens to the file, and what a step publishes for a stream are entries of
\* lines that start at or after the offset tracked before the step, first
\* ones first: after a truncation or a removal and recreation no line lying
\* before the offset is published.
C33_OffsetNeverReset ==
    [][\A p \in LogPaths :
          LET before == Published(p)
              after == Published(p)'
              fresh == SubSeq(after, Len(before) + 1, Len(after))
          IN  /\ TrackedOffset(p)' >= TrackedOffset(p)
              /\ IsPrefix(before, after)
              /\ fresh # <<>> =>
                    IsPrefix(fresh, Entries(LinesFrom(files[p], TrackedOffset(p))))]_vars

\* one line was published (offset 4); the file was emptied and holds a new
\* object of three bytes, whose change was dispatched with a receiver
\* registered: nothing more was published and the offset is still 4
C33_Witness ==
    /\ TrackedOffset(PA) = 4
    /\ fstat[PA] = "file"
    /\ Len(files[PA]) = 3
    /\ Len(AllEntries(PA)) = 1
    /\ PA \notin pending
    /\ DOMAIN watch_rx # {}
    /\ Len(Published(PA)) = 1
    /\ Published(PA)[1] # AllEntries(PA)[1][1]

\* C34: only created-or-modified notifications are processed.  In every
\* state, whatever files wait unread and whoever is registered, a notification
\* of another kind, for any paths, leaves the published events and every
\* tracked position as they are.
C34_OtherKindsIgnored ==
    \A k \in OtherKinds, b \in {<<PA>>, <<PB>>, <<PA, PB>>} :
        match_event_kind(k, b) = [sessions |-> active_sessions, sent |-> sent]

\* a state in which a create or modify notification does publish: a receiver
\* is registered and both files hold an unread line
C34_Witness ==
    /\ DOMAIN watch_rx # {}
    /\ Len(Unread(PA)) >= 1
    /\ Len(Unread(PB)) >= 1
    /\ match_event_kind("modify", <<PA, PB>>).sent # sent

\* C35: inbound activity.  A step in which the inbound task reads a frame
\* that is neither a close nor an error leaves the connection as it is: both
\* tasks and the handler go on and the receiver, what it has received and what
\* was forwarded are unchanged.  The inbound task ends only when the transport
\* has delivered a close frame, failed or ended.
C35_InboundActivity ==
    [][\A c \in Conns :
          /\ frames'[c] # frames[c] =>
                /\ recv_task'[c] = "running"
                /\ send_task'[c] = send_task[c]
                /\ handler'[c] = handler[c]
                /\ watch_rx' = watch_rx
                /\ subVars' = subVars
                /\ forwarded' = forwarded
          /\ (recv_task[c] = "running" /\ recv_task'[c] = "done") =>
                transport[c] \in Endings]_vars

\* the viewer has sent a frame and the connection is streaming as before
C35_Witness ==
    /\ frames["c1"] = MaxFrames
    /\ recv_task["c1"] = "running"
    /\ send_task["c1"] = "running"
    /\ handler["c1"] = "select"
    /\ "c1" \in DOMAIN watch_rx

\* the handler waits in its select, both tasks run and the receiver is held
Streaming(c) ==
    /\ handler[c] = "select"
    /\ recv_task[c] = "running"
    /\ send_task[c] = "running"
    /\ c \in DOMAIN watch_rx

\* C36: no idle timeout.  A streaming connection whose transport is open and
\* which has not fallen behind by more than the capacity is still streaming
\* after every step; and while it has no event to forward, the engine has no
\* step that ends one of its tasks or returns from its handler.
C36_NoIdleTimeout ==
    /\ [][\A c \in Conns :
            (Streaming(c) /\ transport[c] = "open" /\ ~Lagging(c)) => Streaming(c)']_vars
    /\ [](\A c \in Conns :
            (Streaming(c) /\ transport[c] = "open" /\ watch_rx[c] = Len(sent)) =>
                /\ ~ENABLED recv_end(c)
                /\ ~ENABLED send_step(c)
                /\ ~ENABLED ws_select(c))

\* a viewer is connected, has sent nothing and nothing has been published
C36_Witness ==
    /\ Streaming("c1")
    /\ transport["c1"] = "open"
    /\ frames["c1"] = 0
    /\ sent = <<>>
    /\ files[PA] = <<>>

\* C37: the dashboard's selection stays in range.  Once the dashboard runs, a
\* selected project index that is set is an index of the loaded project list
\* and a selected session index that is set is an index of the loaded session
\* list.
C37_SelectionInRange ==
    tui.running =>
        /\ tui.selected_project # None => tui.selected_project[1] < Len(tui.projects)
        /\ tui.selected_session # None => tui.selected_session[1] < Len(tui.sessions)

\* how deep a mode lies in the dashboard's hierarchy
Depth(mode) ==
    CASE mode = "ProjectList" -> 0
      [] mode = "SessionList" -> 1
      [] mode = "ConversationView" -> 2
      [] mode = "Export" -> 3

\* C38: the dashboard's navigation is a strict hierarchy.  It starts in
\* ProjectList.  In every state and for every key, the key moves the mode at
\* most one level; it moves one level down only as Enter from ProjectList or
\* SessionList and as 'e' from ConversationView; Esc moves exactly one level
\* up from Export, ConversationView and SessionList and changes nothing in
\* ProjectList; and the periodic refresh leaves the mode alone.
C38_StrictHierarchy ==
    /\ ~tui.running => tui.mode = "ProjectList"
    /\ \A cache_ok \in BOOLEAN, order \in Orders :
          /\ periodic_refresh(tui, cache_ok, order).mode = tui.mode
          /\ \A key \in KeyCodes :
                LET next == handle_key_event(tui, key, cache_ok, order)
                    from == Depth(tui.mode)
                    to == Depth(next.mode)
                IN  /\ to > from =>
                          /\ to = from + 1
                          /\ key = (IF tui.mode = "ConversationView" THEN "e" ELSE "Enter")
                    /\ to < from => to = from - 1
                    /\ key = "Esc" =>
                          /\ to = saturating_sub(from, 1)
                          /\ tui.mode = "ProjectList" => next = tui

\* the export screen, reached through the project list, a session list and
\* a conversation
C38_Witness ==
    /\ tui.mode = "Export"
    /\ tui.conversation # <<>>
    /\ tui.sessions # <<>>
    /\ tui.projects # <<>>
====
